---------------------------- MODULE Spec2Model ----------------------------
(***************************************************************************)
(* PortDr: the Analyze page (frontend/src/pages/analyze.tsx) and the       *)
(* Monte Carlo engine it calls through /api/optimize.                       *)
(*                                                                         *)
(* Six specifications share this module:                                    *)
(*   Spec         the Analyze component: ticker input, basket, run inputs,  *)
(*                the optimize mutation and the request in flight           *)
(*   SpecResponses postOptimize against any response of the server          *)
(*   SpecQuotes   fetchBasics / fetchLastQuote for one basket               *)
(*   SpecInsights computeCorrelationInsights / CorrelationHeatmap           *)
(*   SpecWeights  clamp01 and the weights rows of the results section       *)
(*   SpecEngine   the engine's sampling and max-Sharpe reduction            *)
(*                                                                         *)
(* Text is a sequence of one-character strings, so that trim and            *)
(* toUpperCase are computed and not assumed.                                *)
(***************************************************************************)
EXTENDS Integers, Sequences, FiniteSets, TLC

VARIABLES
    \* ---- Analyze component state (useState / useMutation)
    input,          \* const [input, setInput] = useState("")
    symbols,        \* const [symbols, setSymbols] = useState<string[]>([])
    riskFree,       \* const [riskFree, setRiskFree] = useState(0.02)
    simulations,    \* const [simulations, setSimulations] = useState(5000)
    mutation,       \* optimizeMutation: status, captured args, data, error
    request,        \* the /api/optimize request in flight (its JSON body)
    inFlight,       \* how many /api/optimize fetches are sent and not settled
    response,       \* the response postOptimize read in the current run
    \* ---- fetchBasics
    qSymbols,       \* the basket fetchBasics was called with
    quotes,         \* per ticker: the state of its fetchLastQuote promise
    basics,         \* the state of the fetchBasics promise
    \* ---- correlation insights
    corr,           \* the CorrMatrix handed to CorrelationHeatmap
    optWeights,     \* the weights prop (or undefined)
    insight,        \* the value computeCorrelationInsights returned
    cells,          \* the text displayed in each cell of the heatmap grid
    \* ---- weights rows of the results section
    optimalWeights, \* optimal?.weights of the response on screen
    weights,        \* the rows rendered from it: symbol, percentage, bar width
    \* ---- engine
    market,         \* mean returns, covariance, risk-free rate of the run
    population,     \* the N simulated portfolios, by sample index
    assign,         \* which worker evaluates which sample
    scanned,        \* per worker: how many of its samples it has reduced
    localBest,      \* per worker: its running maximum (index, sharpe)
    merged,         \* the workers whose result the merge step has folded in
    best            \* the merge step's running maximum

uiVars == <<input, symbols, riskFree, simulations, mutation, request, inFlight, response>>
quoteVars == <<qSymbols, quotes, basics>>
insightVars == <<corr, optWeights, insight, cells>>
engineVars == <<market, population, assign, scanned, localBest, merged, best>>
weightVars == <<optimalWeights, weights>>
vars == <<uiVars, quoteVars, insightVars, weightVars, engineVars>>

---------------------------------------------------------------------------
(* Text helpers *)

Range(s) == {s[i] : i \in 1..Len(s)}

\* JavaScript's white space, as far as the alphabet below has any
IsSpace(c) == c = " "

\* String.prototype.toUpperCase on one character of the alphabet
UpperChar(c) ==
    CASE c = "a" -> "A"
      [] c = "b" -> "B"
      [] OTHER -> c

ToUpperCase(s) == [i \in 1..Len(s) |-> UpperChar(s[i])]

RECURSIVE TrimStart(_)
TrimStart(s) ==
    IF s # <<>> /\ IsSpace(Head(s)) THEN TrimStart(Tail(s)) ELSE s

RECURSIVE TrimEnd(_)
TrimEnd(s) ==
    IF s # <<>> /\ IsSpace(s[Len(s)]) THEN TrimEnd(SubSeq(s, 1, Len(s) - 1)) ELSE s

\* String.prototype.trim
Trim(s) == TrimEnd(TrimStart(s))

\* Array.prototype.includes
Includes(list, x) == \E i \in 1..Len(list) : list[i] = x

\* Array.prototype.filter(x => x !== s)
RECURSIVE FilterOut(_, _)
FilterOut(list, s) ==
    IF list = <<>> THEN <<>>
    ELSE IF Head(list) = s THEN FilterOut(Tail(list), s)
    ELSE <<Head(list)>> \o FilterOut(Tail(list), s)

\* What the user can put in the ticker box (e.target.value)
TypedTexts ==
    { <<>>, <<" ">>, <<"a">>, <<"A">>, <<" ", "a", " ">>, <<"b">>, <<"a", "b">> }

---------------------------------------------------------------------------
(* Numbers typed in an <input type="number">: Number(e.target.value)       *)

DigitValue(c) ==
    CASE c = "0" -> 0 [] c = "1" -> 1 [] c = "2" -> 2 [] c = "3" -> 3
      [] c = "4" -> 4 [] c = "5" -> 5 [] c = "6" -> 6 [] c = "7" -> 7
      [] c = "8" -> 8 [] c = "9" -> 9

RECURSIVE DigitsValue(_)
DigitsValue(s) ==
    IF s = <<>> THEN 0 ELSE 10 * DigitsValue(SubSeq(s, 1, Len(s) - 1)) + DigitValue(s[Len(s)])

RECURSIVE Pow10(_)
Pow10(n) == IF n = 0 THEN 1 ELSE 10 * Pow10(n - 1)

\* A decimal as num / den with den a power of ten, no common factor ten
RECURSIVE Normal(_)
Normal(q) ==
    IF q.den > 1 /\ q.num % 10 = 0 THEN Normal([num |-> q.num \div 10, den |-> q.den \div 10])
    ELSE q

DotAt(s) == IF \E i \in 1..Len(s) : s[i] = "." THEN CHOOSE i \in 1..Len(s) : s[i] = "." ELSE 0

\* Number(text) for the texts of a number field: "" is 0, else the decimal
NumberOf(s) ==
    IF s = <<>> THEN [num |-> 0, den |-> 1]
    ELSE IF DotAt(s) = 0 THEN [num |-> DigitsValue(s), den |-> 1]
    ELSE LET whole == SubSeq(s, 1, DotAt(s) - 1)
             frac == SubSeq(s, DotAt(s) + 1, Len(s))
         IN  Normal([num |-> DigitsValue(whole) * Pow10(Len(frac)) + DigitsValue(frac),
                     den |-> Pow10(Len(frac))])

\* What the user can put in the Simulations field
SimulationTexts ==
    { <<>>, <<"4", "9", "9">>, <<"5", "0", "0">>, <<"5", "0", "0", "0", "1">> }

\* What the user can put in the Risk-free rate field
RiskFreeTexts == { <<"0", ".", "0", "2", "5">> }

\* useState(0.02), useState(5000)
InitialRiskFree == [num |-> 2, den |-> 100]
InitialSimulations == [num |-> 5000, den |-> 1]

---------------------------------------------------------------------------
(* The basket *)

\* A plausible slip: the includes() test left out
uniquePushNoDedup(list, raw) ==
    LET symbol == ToUpperCase(Trim(raw))
    IN  IF symbol = <<>> THEN list ELSE Append(list, symbol)

uniquePush(list, raw) ==
    LET symbol == ToUpperCase(Trim(raw))
    IN  IF symbol = <<>> THEN list
        ELSE IF Includes(list, symbol) THEN list
        ELSE Append(list, symbol)

---------------------------------------------------------------------------
(* The optimize request, the backend's answer, and postOptimize            *)

NoRequest == [sent |-> FALSE]

\* A plausible slip: the count forced into the field's min/max on the way out
OptimizeBodyClamped(args) ==
    [sent |-> TRUE,
     tickers |-> args.symbols,
     risk_free |-> args.riskFree,
     simulations |->
        IF args.simulations.num < 500 * args.simulations.den THEN [num |-> 500, den |-> 1]
        ELSE IF args.simulations.num > 50000 * args.simulations.den THEN [num |-> 50000, den |-> 1]
        ELSE args.simulations,
     verbose |-> FALSE]

\* JSON.stringify({tickers, risk_free, simulations, verbose: false})
OptimizeBody(args) ==
    [sent |-> TRUE,
     tickers |-> args.symbols,
     risk_free |-> args.riskFree,
     simulations |-> args.simulations,
     verbose |-> FALSE]

\* The configured bounds of the simulation count
MinSimulations == 500
MaxSimulations == 50000

SimulationsInBounds(n) ==
    /\ MinSimulations * n.den <= n.num
    /\ n.num <= MaxSimulations * n.den

\* An OptimizePayload, as far as the page reads it
ErrorPayload(msg) == [ok |-> FALSE, error |-> msg, hasResults |-> FALSE, weights |-> <<>>]
ResultPayload(w) == [ok |-> TRUE, error |-> "", hasResults |-> TRUE, weights |-> w]

\* optimizeMutation.data before any successful run
Undefined == [undefined |-> TRUE]

\* JavaScript's null
Null == [null |-> TRUE]

\* Weight vectors a run may report for a ticker list, in k-ths of 1:
\* everything on the first ticker, or equal weights
ReportedWeights(tickers) ==
    { [t \in Range(tickers) |-> IF t = tickers[1] THEN Len(tickers) ELSE 0],
      [t \in Range(tickers) |-> 1] }

\* What the engine answers to a request body
BackendResponses(body) ==
    IF body.tickers = <<>>
    THEN { [transport |-> "ok", httpOk |-> FALSE, payload |-> ErrorPayload("EmptyBasket")] }
    ELSE IF ~SimulationsInBounds(body.simulations)
    THEN { [transport |-> "ok", httpOk |-> FALSE,
            payload |-> ErrorPayload("SimulationBoundsExceeded")] }
    ELSE { [transport |-> "ok", httpOk |-> FALSE, payload |-> ErrorPayload("InsufficientData")] }
         \cup { [transport |-> "ok", httpOk |-> TRUE, payload |-> ResultPayload(w)] :
                    w \in ReportedWeights(body.tickers) }

\* fetch() rejecting, or r.json() rejecting on a body that is not JSON
TransportFailures ==
    { [transport |-> "network_error", httpOk |-> FALSE, payload |-> ErrorPayload("")],
      [transport |-> "not_json", httpOk |-> FALSE, payload |-> ErrorPayload("")] }

\* A plausible slip: && for || in the failure test
postOptimizeBothFail(resp) ==
    IF resp.transport = "network_error"
    THEN [settled |-> "rejected", message |-> "Failed to fetch", data |-> Undefined]
    ELSE IF resp.transport = "not_json"
    THEN [settled |-> "rejected", message |-> "Unexpected token", data |-> Undefined]
    ELSE IF resp.payload = Null
    THEN IF ~resp.httpOk
         THEN [settled |-> "rejected", message |-> "Optimization failed", data |-> Undefined]
         ELSE [settled |-> "rejected", message |-> "Cannot read properties of null",
               data |-> Undefined]
    ELSE IF ~resp.httpOk /\ ~resp.payload.ok
    THEN [settled |-> "rejected",
          message |-> IF resp.payload.error # "" THEN resp.payload.error
                      ELSE "Optimization failed",
          data |-> Undefined]
    ELSE [settled |-> "resolved", message |-> "", data |-> resp.payload]

\* postOptimize from the response on: resolves with the payload or rejects
postOptimize(resp) ==
    IF resp.transport = "network_error"
    THEN [settled |-> "rejected", message |-> "Failed to fetch", data |-> Undefined]
    ELSE IF resp.transport = "not_json"
    THEN [settled |-> "rejected", message |-> "Unexpected token", data |-> Undefined]
    ELSE IF resp.payload = Null
    THEN IF ~resp.httpOk                                  \* data?.error is undefined
         THEN [settled |-> "rejected", message |-> "Optimization failed", data |-> Undefined]
         ELSE [settled |-> "rejected", message |-> "Cannot read properties of null",
               data |-> Undefined]                        \* data.ok throws
    ELSE IF ~resp.httpOk \/ ~resp.payload.ok
    THEN [settled |-> "rejected",
          message |-> IF resp.payload.error # "" THEN resp.payload.error
                      ELSE "Optimization failed",
          data |-> Undefined]
    ELSE [settled |-> "resolved", message |-> "", data |-> resp.payload]

---------------------------------------------------------------------------
(* The optimize mutation (useMutation) *)

NoArgs == [symbols |-> <<>>, riskFree |-> InitialRiskFree, simulations |-> InitialSimulations]

IdleMutation ==
    [status |-> "idle", args |-> NoArgs, data |-> Undefined, error |-> "",
     failureCount |-> 0, sent |-> 0, toasts |-> <<>>]

\* A plausible slip: a retry configured for the mutation (retry: 1)
ShouldRetryOnce(failureCount) == failureCount < 1

\* useMutation is given no retry option: a failed mutation is not retried
ShouldRetry(failureCount) == FALSE

\* A plausible slip: the previous run's data kept while the next one runs
MutateKeepingData(args) ==
    [status |-> "pending", args |-> args, data |-> mutation.data, error |-> "",
     failureCount |-> 0, sent |-> 1, toasts |-> <<>>]

\* optimizeMutation.mutate(): a new mutation, pending, its data undefined
Mutate(args) ==
    [status |-> "pending", args |-> args, data |-> Undefined, error |-> "",
     failureCount |-> 0, sent |-> 1, toasts |-> <<>>]

---------------------------------------------------------------------------
(* What the page renders *)

isPending == mutation.status = "pending"

\* A plausible slip: the pending test left out of canOptimize
canOptimizeIgnoringPending == Len(symbols) >= 1

canOptimize == Len(symbols) >= 1 /\ ~isPending

\* {symbols.length > 0 && (<Card> ... Run optimization ... </Card>)}
OptimizeCardRendered == Len(symbols) > 0

\* A plausible slip: the button outside the card and never disabled
RunButtonAlwaysEnabled == TRUE

\* The Run optimization button can be clicked
RunButtonEnabled == OptimizeCardRendered /\ canOptimize

\* const optimal = optimizeMutation.data?.results?.optimal_portfolio
optimalDefined == mutation.data # Undefined /\ mutation.data.hasResults

\* {optimizeMutation.data?.ok && optimal && (...)}
ResultsShown == mutation.data # Undefined /\ mutation.data.ok /\ optimalDefined

\* the symbols of the weights rows (Object.entries(optimal?.weights ?? {}))
DisplayedWeightTickers == IF optimalDefined THEN DOMAIN mutation.data.weights ELSE {}

---------------------------------------------------------------------------
(* Actions of the Analyze component *)

otherVarsUI == <<quoteVars, insightVars, weightVars, engineVars>>

\* onChange of the ticker box: setInput(e.target.value.toUpperCase())
OnChangeInput ==
    \E typed \in TypedTexts :
        /\ input' = ToUpperCase(typed)
        /\ UNCHANGED <<symbols, riskFree, simulations, mutation, request, inFlight, response, otherVarsUI>>

\* onPush: the Enter key or the Enter button
OnPush ==
    /\ Trim(input) # <<>>
    /\ symbols' = uniquePush(symbols, input)
    /\ input' = <<>>
    /\ UNCHANGED <<riskFree, simulations, mutation, request, inFlight, response, otherVarsUI>>

\* remove(s): the x button of a basket chip
Remove ==
    \E i \in 1..Len(symbols) :
        /\ symbols' = FilterOut(symbols, symbols[i])
        /\ UNCHANGED <<input, riskFree, simulations, mutation, request, inFlight, response, otherVarsUI>>

\* onChange of the risk-free field: setRiskFree(Number(e.target.value))
SetRiskFree ==
    /\ OptimizeCardRendered
    /\ \E text \in RiskFreeTexts : riskFree' = NumberOf(text)
    /\ UNCHANGED <<input, symbols, simulations, mutation, request, inFlight, response, otherVarsUI>>

\* onChange of the simulations field: setSimulations(Number(e.target.value))
SetSimulations ==
    /\ OptimizeCardRendered
    /\ \E text \in SimulationTexts : simulations' = NumberOf(text)
    /\ UNCHANGED <<input, symbols, riskFree, mutation, request, inFlight, response, otherVarsUI>>

\* click on Run optimization: mutate() calls postOptimize({symbols, riskFree, simulations})
RunOptimization ==
    /\ RunButtonEnabled
    /\ LET args == [symbols |-> symbols, riskFree |-> riskFree, simulations |-> simulations]
       IN  /\ mutation' = Mutate(args)
           /\ request' = OptimizeBody(args)
    /\ inFlight' = inFlight + 1
    /\ response' = Null
    /\ UNCHANGED <<input, symbols, riskFree, simulations, otherVarsUI>>

\* the request settles with one of `responses`: postOptimize resolves or
\* rejects, then onSuccess / onError
Settle(responses) ==
    /\ request.sent
    /\ \E resp \in responses :
        LET r == postOptimize(resp)
        IN  /\ response' = resp
            /\ IF r.settled = "resolved"
               THEN /\ mutation' = [mutation EXCEPT
                           !.status = "success", !.data = r.data,
                           !.toasts = Append(@, [kind |-> "success", text |-> "Optimization finished"])]
                    /\ request' = NoRequest
                    /\ inFlight' = inFlight - 1
               ELSE IF ShouldRetry(mutation.failureCount)
               THEN /\ mutation' = [mutation EXCEPT !.failureCount = @ + 1, !.sent = @ + 1]
                    /\ request' = OptimizeBody(mutation.args)
                    /\ inFlight' = inFlight
               ELSE /\ mutation' = [mutation EXCEPT
                           !.status = "error", !.error = r.message,
                           !.failureCount = @ + 1,
                           !.toasts = Append(@, [kind |-> "error", text |-> r.message])]
                    /\ request' = NoRequest
                    /\ inFlight' = inFlight - 1
    /\ UNCHANGED <<input, symbols, riskFree, simulations, otherVarsUI>>

\* the request is answered by the engine, or the transport fails
OptimizeSettles == Settle(BackendResponses(request) \cup TransportFailures)

InitQuotesIdle ==
    /\ qSymbols = <<>>
    /\ quotes = <<>>
    /\ basics = [state |-> "idle"]

InitInsightsIdle ==
    /\ corr = <<>>
    /\ optWeights = Undefined
    /\ insight = Undefined
    /\ cells = <<>>

InitWeightsIdle ==
    /\ optimalWeights = <<>>
    /\ weights = Undefined

InitEngineIdle ==
    /\ market = Undefined
    /\ population = <<>>
    /\ assign = <<>>
    /\ scanned = <<>>
    /\ localBest = <<>>
    /\ merged = {}
    /\ best = Undefined

InitUIIdle ==
    /\ input = <<>>
    /\ symbols = <<>>
    /\ riskFree = InitialRiskFree
    /\ simulations = InitialSimulations
    /\ mutation = IdleMutation
    /\ request = NoRequest
    /\ inFlight = 0
    /\ response = Null

Init == InitUIIdle /\ InitQuotesIdle /\ InitInsightsIdle /\ InitWeightsIdle /\ InitEngineIdle

Next ==
    \/ OnChangeInput
    \/ OnPush
    \/ Remove
    \/ SetRiskFree
    \/ SetSimulations
    \/ RunOptimization
    \/ OptimizeSettles

Spec == Init /\ [][Next]_vars

---------------------------------------------------------------------------
(* postOptimize against a server that may answer anything                  *)
(* (specification SpecResponses)                                           *)

\* The payloads a response can carry: null, or any mix of ok, error text
\* and results
AnyPayloads ==
    {Null}
    \cup { [ok |-> o, error |-> e, hasResults |-> FALSE, weights |-> <<>>] :
              o \in BOOLEAN, e \in {"", "InsufficientData", "SimulationBoundsExceeded"} }
    \cup { [ok |-> o, error |-> e, hasResults |-> TRUE, weights |-> w] :
              o \in BOOLEAN, e \in {"", "InsufficientData"},
              w \in ReportedWeights(<<"A", "B">>) }

AnyResponses ==
    TransportFailures
    \cup { [transport |-> "ok", httpOk |-> h, payload |-> p] : h \in BOOLEAN, p \in AnyPayloads }

\* the request is answered in any way
OptimizeSettlesAny == Settle(AnyResponses)

InitResponses ==
    /\ input = <<>>
    /\ symbols \in { <<"A">>, <<"A", "B">> }
    /\ riskFree = InitialRiskFree
    /\ simulations = InitialSimulations
    /\ mutation = IdleMutation
    /\ request = NoRequest
    /\ inFlight = 0
    /\ response = Null
    /\ InitQuotesIdle /\ InitInsightsIdle /\ InitWeightsIdle /\ InitEngineIdle

NextResponses == RunOptimization \/ Remove \/ OptimizeSettlesAny

SpecResponses == InitResponses /\ [][NextResponses]_vars

---------------------------------------------------------------------------
(* fetchLastQuote / fetchBasics (specification SpecQuotes) *)

\* A JavaScript string value
Str(s) == [string |-> s]

\* Baskets fetchBasics is called with
QuoteBaskets ==
    { <<>>, <<"A">>, <<"A", "B">>, <<"B", "A">>, <<"A", "B", "C">> }

\* The JSON bodies /api/ticker/last can answer with, as far as the page reads them
QuoteBodies ==
    { [isNull |-> TRUE, ok |-> FALSE, ticker |-> Undefined, last_open |-> Undefined,
       last_close |-> Undefined, country |-> Undefined, last_date |-> Undefined],
      [isNull |-> FALSE, ok |-> FALSE, ticker |-> Undefined, last_open |-> Undefined,
       last_close |-> Undefined, country |-> Undefined, last_date |-> Undefined],
      [isNull |-> FALSE, ok |-> TRUE, ticker |-> Str("X"), last_open |-> [number |-> 10],
       last_close |-> [number |-> 11], country |-> Str("US"), last_date |-> Str("2024-01-02")],
      [isNull |-> FALSE, ok |-> TRUE, ticker |-> Undefined, last_open |-> Str("n/a"),
       last_close |-> Null, country |-> Undefined, last_date |-> Null] }

\* What one /api/ticker/last call can end in
QuoteResponses ==
    { [transport |-> "network_error", httpOk |-> FALSE, body |-> b] :
          b \in {x \in QuoteBodies : x.isNull} }
    \cup { [transport |-> "not_json", httpOk |-> h, body |-> b] :
          h \in BOOLEAN, b \in {x \in QuoteBodies : x.isNull} }
    \cup { [transport |-> "ok", httpOk |-> h, body |-> b] : h \in BOOLEAN, b \in QuoteBodies }

IsNumber(x) == DOMAIN x = {"number"}

\* x ?? fallback
Coalesce(x, fallback) == IF x = Undefined \/ x = Null THEN fallback ELSE x

SoftFailRecord(symbol) ==
    [symbol |-> Str(symbol), open |-> Null, close |-> Null, country |-> Null, lastDate |-> Null]

\* fetchLastQuote from the response on
fetchLastQuote(symbol, resp) ==
    IF resp.transport = "network_error"
    THEN [state |-> "rejected", value |-> Str("Failed to fetch")]     \* await fetch(...) throws
    ELSE IF resp.transport = "not_json"
    THEN [state |-> "rejected", value |-> Str("Unexpected token")]    \* await r.json() throws
    ELSE IF ~resp.httpOk \/ resp.body.isNull \/ ~resp.body.ok
    THEN [state |-> "resolved", value |-> SoftFailRecord(symbol)]
    ELSE [state |-> "resolved",
          value |-> [symbol |-> Coalesce(resp.body.ticker, Str(symbol)),
                     open |-> IF IsNumber(resp.body.last_open) THEN resp.body.last_open ELSE Null,
                     close |-> IF IsNumber(resp.body.last_close) THEN resp.body.last_close ELSE Null,
                     country |-> Coalesce(resp.body.country, Null),
                     lastDate |-> Coalesce(resp.body.last_date, Null)]]

PendingQuote == [state |-> "pending", value |-> Null, resp |-> Null]

\* Promise.all over the quote promises: the first rejection rejects it,
\* the last fulfilment fulfils it with the values in basket order
PromiseAll(qs, current) ==
    IF current.state # "pending" THEN current
    ELSE IF \E i \in 1..Len(qs) : qs[i].state = "rejected"
    THEN [state |-> "rejected",
          value |-> (LET i == CHOOSE i \in 1..Len(qs) : qs[i].state = "rejected"
                     IN  qs[i].value)]
    ELSE IF \A i \in 1..Len(qs) : qs[i].state = "resolved"
    THEN [state |-> "resolved", value |-> [i \in 1..Len(qs) |-> qs[i].value]]
    ELSE current

otherVarsQuotes == <<uiVars, insightVars, weightVars, engineVars>>

\* fetchBasics(symbols): [] for the empty basket, else one fetchLastQuote each
FetchBasics ==
    /\ basics.state = "idle"
    /\ IF qSymbols = <<>>
       THEN /\ basics' = [state |-> "resolved", value |-> <<>>]
            /\ quotes' = <<>>
       ELSE /\ basics' = [state |-> "pending", value |-> Null]
            /\ quotes' = [i \in 1..Len(qSymbols) |-> PendingQuote]
    /\ UNCHANGED <<qSymbols, otherVarsQuotes>>

\* one quote request ends; Promise.all reacts
QuoteSettles ==
    /\ basics.state # "idle"
    /\ \E i \in 1..Len(quotes), resp \in QuoteResponses :
        /\ quotes[i].state = "pending"
        /\ LET q == fetchLastQuote(qSymbols[i], resp)
               qs == [quotes EXCEPT ![i] = [state |-> q.state, value |-> q.value, resp |-> resp]]
           IN  /\ quotes' = qs
               /\ basics' = PromiseAll(qs, basics)
    /\ UNCHANGED <<qSymbols, otherVarsQuotes>>

InitQuotes ==
    /\ qSymbols \in QuoteBaskets
    /\ quotes = <<>>
    /\ basics = [state |-> "idle"]
    /\ InitUIIdle /\ InitInsightsIdle /\ InitWeightsIdle /\ InitEngineIdle

NextQuotes == FetchBasics \/ QuoteSettles

SpecQuotes == InitQuotes /\ [][NextQuotes]_vars

---------------------------------------------------------------------------
(* computeCorrelationInsights (specification SpecInsights)                 *)
(* Correlations are in hundredths: [number |-> 80] is 0.80.  Averages are  *)
(* exact fractions [num, den] of hundredths.                               *)

Num(n) == [number |-> n]
NaN == [nan |-> TRUE]

\* The tickers a matrix can be keyed by, in String sort order
TickerOrder == <<"A", "B", "C">>
TickerRank(t) == CHOOSE i \in 1..Len(TickerOrder) : TickerOrder[i] = t

\* Object.keys(corr).sort()
RECURSIVE SortedKeys(_)
SortedKeys(keys) ==
    IF keys = {} THEN <<>>
    ELSE LET first == CHOOSE t \in keys : \A u \in keys : TickerRank(t) <= TickerRank(u)
         IN  <<first>> \o SortedKeys(keys \ {first})

\* What a cell of the payload's matrix can hold
EntryValues == {Num(-50), Num(80), Undefined, Null, NaN}
FiniteValues == {Num(-50), Num(0), Num(80), Num(100), Num(150)}

\* Matrices over one or two tickers with any cells, and symmetric finite
\* matrices over three tickers with a unit diagonal
CorrMatrices ==
    UNION { [K -> [K -> EntryValues]] : K \in {{"B"}, {"A", "B"}} }
    \cup { [a \in {"A"} |-> [b \in {"A"} |-> Num(100)]] }
    \cup { [a \in {"A", "B", "C"} |-> [b \in {"A", "B", "C"} |->
              IF a = b THEN Num(100)
              ELSE IF {a, b} = {"A", "B"} THEN ab
              ELSE IF {a, b} = {"A", "C"} THEN ac
              ELSE bc]] :
           ab \in FiniteValues, ac \in FiniteValues, bc \in FiniteValues }
    \cup { <<>> }

\* The weights prop, in hundredths: absent, or a weight per ticker
WeightProps(keys) ==
    {Undefined}
    \cup { [t \in keys |-> IF TickerRank(t) = 1 + (Cardinality(keys) % 2) THEN Num(100) ELSE Num(0)] }
    \cup { [t \in keys |-> IF TickerRank(t) = 2 THEN Num(50) ELSE Num(25)] }

\* obj?.[key]
Get(obj, key) ==
    IF obj = Undefined \/ obj = Null THEN Undefined
    ELSE IF key \in DOMAIN obj THEN obj[key] ELSE Undefined

\* safeNum(x, fallback): Number(x) if finite, else fallback
safeNum(x, fallback) ==
    IF IsNumber(x) THEN x.number
    ELSE IF x = Null THEN 0          \* Number(null) is 0
    ELSE fallback                    \* Number(undefined), NaN

Abs(n) == IF n < 0 THEN -n ELSE n

\* A plausible slip: the lower bound left out
clampAbove(q, a, b) ==
    IF q.num > b * q.den THEN [num |-> b, den |-> 1] ELSE q

\* clamp(n, a, b) on a fraction with a positive denominator
clamp(q, a, b) ==
    IF q.num < a * q.den THEN [num |-> a, den |-> 1]
    ELSE IF q.num > b * q.den THEN [num |-> b, den |-> 1]
    ELSE q

\* the pair loop: for i < j over the sorted tickers
RECURSIVE PairsFrom(_, _, _, _, _)
PairsFrom(c, w, tickers, i, j) ==
    IF i > Len(tickers) THEN <<>>
    ELSE IF j > Len(tickers) THEN PairsFrom(c, w, tickers, i + 1, i + 2)
    ELSE LET a == tickers[i]
             b == tickers[j]
             v == safeNum(Get(Get(c, a), b), safeNum(Get(Get(c, b), a), 0))
             wpair == IF w # Undefined
                      THEN Num(safeNum(Get(w, a), 0) * safeNum(Get(w, b), 0))
                      ELSE Undefined
         IN  <<[a |-> a, b |-> b, v |-> v, wpair |-> wpair]>>
             \o PairsFrom(c, w, tickers, i, j + 1)

\* pairs.reduce((s, p) => s + f(p), 0), on the values f(p)
RECURSIVE SumSeq(_)
SumSeq(xs) == IF xs = <<>> THEN 0 ELSE Head(xs) + SumSeq(Tail(xs))

SumOver(pairs, F(_)) == SumSeq([i \in 1..Len(pairs) |-> F(pairs[i])])

\* A plausible slip: >= for > keeps the last of equal pairs
RECURSIVE MostOfLast(_, _)
MostOfLast(pairs, most) ==
    IF pairs = <<>> THEN most
    ELSE MostOfLast(Tail(pairs), IF Head(pairs).v >= most.v THEN Head(pairs) ELSE most)

\* for (const p of pairs) if (p.v > most.v) most = p
RECURSIVE MostOf(_, _)
MostOf(pairs, most) ==
    IF pairs = <<>> THEN most
    ELSE MostOf(Tail(pairs), IF Head(pairs).v > most.v THEN Head(pairs) ELSE most)

\* for (const p of pairs) if (p.v < least.v) least = p
RECURSIVE LeastOf(_, _)
LeastOf(pairs, least) ==
    IF pairs = <<>> THEN least
    ELSE LeastOf(Tail(pairs), IF Head(pairs).v < least.v THEN Head(pairs) ELSE least)

\* A plausible slip: every pair counted alike
PairWeightUnit(p) == IF p.wpair = Undefined THEN 0 ELSE 1

\* p.wpair ?? 0
PairWeight(p) == IF p.wpair = Undefined THEN 0 ELSE p.wpair.number

computeCorrelationInsights(c, w) ==
    LET tickers == SortedKeys(DOMAIN c)
        pairs == PairsFrom(c, w, tickers, 1, 2)
    IN  IF pairs = <<>>
        THEN [tickers |-> tickers,
              avgAbs |-> [num |-> 0, den |-> 1],
              avg |-> [num |-> 0, den |-> 1],
              most |-> Null,
              least |-> Null,
              weightedAvgAbs |-> Null,
              diversificationScore |-> [num |-> 0, den |-> 1],
              pairs |-> pairs]
        ELSE LET AbsV(p) == Abs(p.v)
                 V(p) == p.v
                 WAbsV(p) == Abs(p.v) * PairWeight(p)
                 sumAbs == SumOver(pairs, AbsV)
                 most == MostOf(pairs, pairs[1])
                 least == LeastOf(pairs, pairs[1])
                 denom == SumOver(pairs, PairWeight)
             IN  [tickers |-> tickers,
                  avgAbs |-> [num |-> sumAbs, den |-> Len(pairs)],
                  avg |-> [num |-> SumOver(pairs, V), den |-> Len(pairs)],
                  most |-> [a |-> most.a, b |-> most.b, v |-> most.v],
                  least |-> [a |-> least.a, b |-> least.b, v |-> least.v],
                  weightedAvgAbs |->
                      IF w # Undefined /\ denom > 0
                      THEN [num |-> SumOver(pairs, WAbsV), den |-> denom]
                      ELSE Null,
                  \* (1 - avgAbs) * 100, with avgAbs = sumAbs / (100 * n): in units of 1
                  diversificationScore |->
                      clamp([num |-> 100 * Len(pairs) - sumAbs, den |-> Len(pairs)], 0, 100),
                  pairs |-> pairs]

DigitChar(d) == <<"0", "1", "2", "3", "4", "5", "6", "7", "8", "9">>[d + 1]

\* the decimal digits of a natural number
RECURSIVE DigitsOf(_)
DigitsOf(n) ==
    IF n < 10 THEN <<DigitChar(n)>> ELSE DigitsOf(n \div 10) \o <<DigitChar(n % 10)>>

\* fmt2.format(v) for v in hundredths: at most two fraction digits, no
\* trailing zeros (values below 1000, so no grouping)
Fmt2(n) ==
    LET m == Abs(n)
        f == m % 100
    IN  (IF n < 0 THEN <<"-">> ELSE <<>>)
        \o DigitsOf(m \div 100)
        \o (IF f = 0 THEN <<>>
            ELSE IF f % 10 = 0 THEN <<".", DigitChar(f \div 10)>>
            ELSE <<".", DigitChar(f \div 10), DigitChar(f % 10)>>)

\* const display = isDiag ? "1.00" : fmt2.format(v)
CellDisplay(c, r, col) ==
    LET isDiag == r = col
        v == safeNum(Get(Get(c, r), col), safeNum(Get(Get(c, col), r), IF isDiag THEN 100 ELSE 0))
    IN  IF isDiag THEN <<"1", ".", "0", "0">> ELSE Fmt2(v)

\* tickers.map((r) => tickers.map((c) => ...)): the grid, by row and column
HeatmapCells(c) == [r \in DOMAIN c |-> [col \in DOMAIN c |-> CellDisplay(c, r, col)]]

otherVarsInsights == <<uiVars, quoteVars, weightVars, engineVars>>

\* CorrelationHeatmap renders: const insight = computeCorrelationInsights(corr, weights)
\* and the grid of cells
ComputeInsights ==
    /\ insight = Undefined
    /\ insight' = computeCorrelationInsights(corr, optWeights)
    /\ cells' = HeatmapCells(corr)
    /\ UNCHANGED <<corr, optWeights, otherVarsInsights>>

\* the page re-renders the heatmap with another run's correlation and weights
NewCorrelation ==
    /\ insight # Undefined
    /\ corr' \in CorrMatrices
    /\ optWeights' \in WeightProps(DOMAIN corr')
    /\ insight' = Undefined
    /\ cells' = <<>>
    /\ UNCHANGED otherVarsInsights

InitInsights ==
    /\ corr \in CorrMatrices
    /\ optWeights \in WeightProps(DOMAIN corr)
    /\ insight = Undefined
    /\ cells = <<>>
    /\ InitUIIdle /\ InitQuotesIdle /\ InitWeightsIdle /\ InitEngineIdle

NextInsights == ComputeInsights \/ NewCorrelation

SpecInsights == InitInsights /\ [][NextInsights]_vars

---------------------------------------------------------------------------
(* The weights rows of the results section: clamp01 and the two figures    *)
(* displayed per ticker (specification SpecWeights)                        *)

PosInfinity == [infinity |-> 1]

NegInfinity == [infinity |-> -1]

\* What a weight of the response can hold, in hundredths
WeightValues ==
    {NaN, Null, NegInfinity, PosInfinity, Num(-50), Num(0), Num(40), Num(100), Num(250)}

\* optimal.weights of a response: a value per ticker
WeightPayloads == UNION { [K -> WeightValues] : K \in {{"A"}, {"A", "B"}} }

\* the conversion to a number that Math.min, Math.max and - apply
ToNumber(x) ==
    IF x = Null THEN Num(0)
    ELSE IF x = Undefined THEN NaN
    ELSE x

\* x <= y on numbers that are not NaN
NumLE(x, y) ==
    \/ x = NegInfinity
    \/ y = PosInfinity
    \/ IsNumber(x) /\ IsNumber(y) /\ x.number <= y.number

MathMin(a, b) ==
    LET x == ToNumber(a)
        y == ToNumber(b)
    IN  IF x = NaN \/ y = NaN THEN NaN ELSE IF NumLE(x, y) THEN x ELSE y

MathMax(a, b) ==
    LET x == ToNumber(a)
        y == ToNumber(b)
    IN  IF x = NaN \/ y = NaN THEN NaN ELSE IF NumLE(x, y) THEN y ELSE x

\* A plausible slip: the NaN test left out
clamp01Unguarded(n) == MathMax(Num(0), MathMin(Num(100), n))

\* clamp01(n), with 1 as 100 hundredths
clamp01(n) ==
    IF n = NaN THEN Num(0)                      \* Number.isNaN(n)
    ELSE MathMax(Num(0), MathMin(Num(100), n))

\* the text of a percentage: pct.format(x) and `${x * 100}%` for x a whole
\* number of hundredths
PercentText(x) ==
    IF x = NaN THEN <<"N", "a", "N", "%">>
    ELSE IF x = PosInfinity THEN <<"I", "n", "f", "i", "n", "i", "t", "y", "%">>
    ELSE IF x = NegInfinity THEN <<"-", "I", "n", "f", "i", "n", "i", "t", "y", "%">>
    ELSE (IF x.number < 0 THEN <<"-">> ELSE <<>>) \o DigitsOf(Abs(x.number)) \o <<"%">>

\* Object.entries(w).map(([symbol, weight]) => ({ symbol, weight }))
Entries(w) ==
    LET keys == SortedKeys(DOMAIN w)
    IN  [i \in 1..Len(keys) |-> [symbol |-> keys[i], weight |-> w[keys[i]]]]

\* b.weight - a.weight is a number for every two entries
ComparatorConsistent(entries) ==
    \A i \in 1..Len(entries) : IsNumber(ToNumber(entries[i].weight))

\* .sort((a, b) => b.weight - a.weight): descending and stable; with a
\* comparator that answers NaN the order is whatever the engine's sort makes
SortDescending(entries) ==
    LET n == Len(entries)
        key(i) == ToNumber(entries[i].weight).number
    IN  { [i \in 1..n |-> entries[p[i]]] :
            p \in { q \in Permutations(1..n) :
                       ComparatorConsistent(entries) =>
                           \A i \in 1..n : \A j \in (i + 1)..n :
                               \/ key(q[i]) > key(q[j])
                               \/ key(q[i]) = key(q[j]) /\ q[i] < q[j] } }

\* a weights row: the symbol, the percentage and the width of the bar
WeightRow(e) ==
    [symbol |-> e.symbol,
     weight |-> e.weight,
     pct |-> PercentText(clamp01(e.weight)),
     width |-> PercentText(clamp01(e.weight))]

otherVarsWeights == <<uiVars, quoteVars, insightVars, engineVars>>

\* the results section renders the rows of optimal.weights
RenderWeights ==
    /\ weights = Undefined
    /\ \E sorted \in SortDescending(Entries(optimalWeights)) :
          weights' = [rows |-> [i \in 1..Len(sorted) |-> WeightRow(sorted[i])]]
    /\ UNCHANGED <<optimalWeights, otherVarsWeights>>

\* another run's response comes on screen
NewWeights ==
    /\ weights # Undefined
    /\ optimalWeights' \in WeightPayloads
    /\ weights' = Undefined
    /\ UNCHANGED otherVarsWeights

InitWeights ==
    /\ optimalWeights \in WeightPayloads
    /\ weights = Undefined
    /\ InitUIIdle /\ InitQuotesIdle /\ InitInsightsIdle /\ InitEngineIdle

NextWeights == RenderWeights \/ NewWeights

SpecWeights == InitWeights /\ [][NextWeights]_vars

---------------------------------------------------------------------------
(* The Monte Carlo engine: sampling, evaluation and the max-Sharpe         *)
(* reduction over parallel workers (specification SpecEngine)              *)

\* The shared annualization constant (daily series)
PeriodsPerYear == 252

\* The number of samples of a run
NumSamples == 3

\* The values a uniform draw can take, in units of the generator
DrawValues == {1, 2}

Workers == {"w1", "w2"}

\* Runs: per ticker the mean periodic return, the annualized covariance
\* matrix, and the risk-free rate (all in the same integer units)
Markets ==
    { [k |-> 1, mu |-> <<1>>, cov |-> << <<4>> >>, rf |-> 0],
      [k |-> 1, mu |-> <<1>>, cov |-> << <<0>> >>, rf |-> 0],
      [k |-> 2, mu |-> <<1, 2>>, cov |-> << <<4, 0>>, <<0, 25>> >>, rf |-> 300],
      [k |-> 2, mu |-> <<1, 1>>, cov |-> << <<4, -4>>, <<-4, 4>> >>, rf |-> 0] }

\* A fraction a/b plus a fraction c/d
FracAdd(p, q) == [num |-> p.num * q.den + q.num * p.den, den |-> p.den * q.den]

RECURSIVE FracSum(_)
FracSum(ws) == IF ws = <<>> THEN [num |-> 0, den |-> 1] ELSE FracAdd(Head(ws), FracSum(Tail(ws)))

\* A plausible slip: normalizing by the largest draw instead of the sum
NormalizeByMax(u) ==
    LET m == CHOOSE x \in Range(u) : \A y \in Range(u) : y <= x
    IN  [i \in 1..Len(u) |-> [num |-> u[i], den |-> m]]

\* Weight sampling: k independent uniform draws normalized by their sum
Normalize(u) == [i \in 1..Len(u) |-> [num |-> u[i], den |-> SumSeq(u)]]

\* Per-sample evaluation.  With w = u / S: expected_return - risk_free is
\* (sum u_i mu_i P - rf S) / S and volatility is sqrt(u' Cov u) / S, so the
\* Sharpe ratio is e / sqrt(v) with the integers e and v below; a negative
\* variance is clamped to 0 and zero volatility gives Sharpe 0.
Evaluate(m, u) ==
    LET S == SumSeq(u)
        e == SumSeq([i \in 1..m.k |-> u[i] * m.mu[i] * PeriodsPerYear]) - m.rf * S
        q == SumSeq([i \in 1..m.k |-> SumSeq([j \in 1..m.k |-> u[i] * u[j] * m.cov[i][j]])])
        v == IF q < 0 THEN 0 ELSE q
    IN  IF v = 0 THEN [e |-> 0, v |-> 1] ELSE [e |-> e, v |-> v]

Sign(n) == IF n > 0 THEN 1 ELSE IF n < 0 THEN -1 ELSE 0

\* e / sqrt(v) compared through the monotone key sign(e) e^2 / v
SharpeGT(a, b) == Sign(a.e) * a.e * a.e * b.v > Sign(b.e) * b.e * b.e * a.v
SharpeEQ(a, b) == Sign(a.e) * a.e * a.e * b.v = Sign(b.e) * b.e * b.e * a.v

NoBest == [index |-> 0]

Sample(m, i, u) == [index |-> i, weights |-> Normalize(u), sharpe |-> Evaluate(m, u)]

\* The scan of one worker: strict >, the first seen of equal samples stays
Scan(current, s) ==
    IF current = NoBest \/ SharpeGT(s.sharpe, current.sharpe) THEN s ELSE current

\* A plausible slip: the result that arrives last replaces the running maximum
MergeTakeLast(current, reported) ==
    IF reported = NoBest THEN current ELSE reported

\* A plausible slip: the merge compares Sharpe only, so arrival order decides ties
MergeNoTieBreak(current, reported) ==
    IF reported = NoBest THEN current
    ELSE IF current = NoBest THEN reported
    ELSE IF SharpeGT(reported.sharpe, current.sharpe) THEN reported
    ELSE current

\* The merge step: strict > on Sharpe, the lower sample index on a tie
Merge(current, reported) ==
    IF reported = NoBest THEN current
    ELSE IF current = NoBest THEN reported
    ELSE IF SharpeGT(reported.sharpe, current.sharpe) THEN reported
    ELSE IF SharpeEQ(reported.sharpe, current.sharpe) /\ reported.index < current.index
    THEN reported
    ELSE current

\* The samples of worker w, in index order
RECURSIVE MineFrom(_, _)
MineFrom(w, i) ==
    IF i > Len(population) THEN <<>>
    ELSE IF assign[i] = w THEN <<i>> \o MineFrom(w, i + 1)
    ELSE MineFrom(w, i + 1)

Mine(w) == MineFrom(w, 1)

otherVarsEngine == <<uiVars, quoteVars, insightVars, weightVars>>

\* worker w evaluates and reduces its next sample
WorkerStep ==
    \E w \in Workers :
        /\ scanned[w] < Len(Mine(w))
        /\ localBest' = [localBest EXCEPT ![w] = Scan(@, population[Mine(w)[scanned[w] + 1]])]
        /\ scanned' = [scanned EXCEPT ![w] = @ + 1]
        /\ UNCHANGED <<market, population, assign, merged, best, otherVarsEngine>>

\* a worker that is through reports (index, triple); the merge folds it in
MergeStep ==
    \E w \in Workers \ merged :
        /\ scanned[w] = Len(Mine(w))
        /\ best' = Merge(best, localBest[w])
        /\ merged' = merged \cup {w}
        /\ UNCHANGED <<market, population, assign, scanned, localBest, otherVarsEngine>>

\* A run: the seed fixes the draws, the scheduler the partition
InitEngine ==
    /\ market \in Markets
    /\ \E draws \in [1..NumSamples -> [1..market.k -> DrawValues]] :
          population = [i \in 1..NumSamples |-> Sample(market, i, draws[i])]
    /\ assign \in [1..NumSamples -> Workers]
    /\ scanned = [w \in Workers |-> 0]
    /\ localBest = [w \in Workers |-> NoBest]
    /\ merged = {}
    /\ best = NoBest
    /\ InitUIIdle /\ InitQuotesIdle /\ InitInsightsIdle /\ InitWeightsIdle

NextEngine == WorkerStep \/ MergeStep

SpecEngine == InitEngine /\ [][NextEngine]_vars

---------------------------------------------------------------------------
(* Claims about the Analyze component (specification Spec) *)

NoDuplicates(list) == \A i, j \in 1..Len(list) : i # j => list[i] # list[j]

WellFormedTicker(s) == s # <<>> /\ Trim(s) = s /\ ToUpperCase(s) = s

WellFormedBasket(list) ==
    /\ NoDuplicates(list)
    /\ \A i \in 1..Len(list) : WellFormedTicker(list[i])

\* C1: after any sequence of add-ticker and remove-ticker actions from the
\* empty basket, the basket has no duplicate entry and every entry is a
\* non-empty, trimmed, upper-case string; so are the tickers of a request.
C1_BasketNormalized ==
    /\ WellFormedBasket(symbols)
    /\ request.sent => WellFormedBasket(request.tickers)

\* a basket of three tickers has been built and sent
C1_Witness ==
    /\ Len(symbols) = 3
    /\ request.sent
    /\ request.tickers = symbols

\* C2: an optimize request is sent only for a basket of at least one ticker.
C2_NoRunForEmptyBasket ==
    /\ request.sent => Len(request.tickers) >= 1
    /\ mutation.status # "idle" => Len(mutation.args.symbols) >= 1

\* a request is in flight and the basket has been emptied since
C2_Witness == request.sent /\ symbols = <<>>

TransportMessages == {"Failed to fetch", "Unexpected token"}

C5_FailureReportedOnceNoRetry ==
    /\ mutation.sent <= 1
    /\ request.sent => mutation.status = "pending"
    /\ mutation.status = "error" =>
          /\ mutation.sent = 1
          /\ ~request.sent
          /\ Len(mutation.toasts) = 1
          /\ mutation.toasts[1] = [kind |-> "error", text |-> mutation.error]

\* a run has failed with the payload's error text
C5_Witness ==
    /\ mutation.status = "error"
    /\ mutation.error = "InsufficientData"
    /\ Len(mutation.toasts) = 1

\* C10 as claimed: whenever an optimal portfolio is displayed, the tickers
\* of the displayed weights are the current basket.
C10_ResultsMatchBasket ==
    ResultsShown => DisplayedWeightTickers = Range(symbols)

\* C10 as amended: whenever an optimal portfolio is displayed, it is the
\* result of the most recent Run action and the tickers of the displayed
\* weights are the basket captured by that Run action; nothing is displayed
\* while a run is pending or after it failed.
C10_ResultsMatchRunBasket ==
    ResultsShown =>
        /\ mutation.status = "success"
        /\ DisplayedWeightTickers = Range(mutation.args.symbols)

\* results are on screen next to a basket changed since the run
C10_Witness ==
    /\ ResultsShown
    /\ DisplayedWeightTickers # Range(symbols)
    /\ symbols # <<>>

\* C11: at most one optimize request is in flight at any time: while a run
\* is pending the Run button is disabled, and the request in flight is the
\* pending run's only one.
C11_OneRequestInFlight ==
    /\ inFlight <= 1
    /\ isPending => ~RunButtonEnabled
    /\ isPending <=> inFlight = 1
    /\ request.sent <=> inFlight = 1

\* a run is pending while the basket and the simulation count have been
\* edited since its Run action
C11_Witness ==
    /\ isPending
    /\ inFlight = 1
    /\ symbols # <<>>
    /\ symbols # mutation.args.symbols
    /\ simulations # mutation.args.simulations

---------------------------------------------------------------------------
(* Claims about postOptimize (specification SpecResponses) *)

Settled == mutation.status \in {"success", "error"}

\* the response carried a payload postOptimize could read
PayloadRead == response.transport = "ok" /\ response.payload # Null

PayloadErrorText ==
    IF response.payload.error # "" THEN response.payload.error ELSE "Optimization failed"

\* the results section is rendered only for a payload with ok = true that
\* holds an optimal_portfolio
ResultsOnlyForOkPayload ==
    ResultsShown <=>
        /\ mutation.status = "success"
        /\ PayloadRead /\ response.payload.ok /\ response.payload.hasResults

\* C12 as claimed: postOptimize resolves with the payload only when the HTTP
\* response is ok and the payload's ok flag is true; in every other case it
\* rejects with the payload's error text, or with "Optimization failed" when
\* there is none; results are rendered only for an ok payload with an
\* optimal_portfolio.
C12_RejectsWithPayloadError ==
    Settled =>
        /\ IF PayloadRead /\ response.httpOk /\ response.payload.ok
           THEN mutation.status = "success" /\ mutation.data = response.payload
           ELSE /\ mutation.status = "error"
                /\ mutation.error =
                      IF PayloadRead THEN PayloadErrorText ELSE "Optimization failed"
        /\ ResultsOnlyForOkPayload

\* C12 as amended: the same, for every response whose JSON payload was
\* read; when fetch() or r.json() throws, or the body is JSON null under an
\* ok status, postOptimize rejects with that exception's message instead.
C12_PostOptimizeOutcome ==
    Settled =>
        /\ IF PayloadRead /\ response.httpOk /\ response.payload.ok
           THEN mutation.status = "success" /\ mutation.data = response.payload
           ELSE /\ mutation.status = "error"
                /\ mutation.error =
                      IF PayloadRead THEN PayloadErrorText
                      ELSE IF response.transport = "network_error" THEN "Failed to fetch"
                      ELSE IF response.transport = "not_json" THEN "Unexpected token"
                      ELSE IF response.httpOk THEN "Cannot read properties of null"
                      ELSE "Optimization failed"
        /\ ResultsOnlyForOkPayload

\* a run resolved with an ok payload that holds no results: nothing rendered
C12_Witness ==
    /\ mutation.status = "success"
    /\ response.httpOk
    /\ response.payload.ok
    /\ ~response.payload.hasResults
    /\ ~ResultsShown

---------------------------------------------------------------------------
(* Claims about fetchBasics (specification SpecQuotes) *)

\* the quote request errored in one of the ways named by C6
QuoteErrored(resp) ==
    resp.transport # "ok" \/ ~resp.httpOk \/ resp.body.isNull \/ ~resp.body.ok

AllQuotesSettled ==
    /\ basics.state # "idle"
    /\ \A i \in 1..Len(quotes) : quotes[i].state # "pending"

\* C6: however the quote request of a ticker errors (HTTP status not ok,
\* payload ok = false, unreadable body, network failure), fetchBasics
\* resolves with one record per basket ticker in basket order, the failing
\* ticker's record all null and the other records unaffected.
C6_SoftFailPerTicker ==
    AllQuotesSettled =>
        /\ basics.state = "resolved"
        /\ Len(basics.value) = Len(qSymbols)
        /\ \A i \in 1..Len(qSymbols) :
              IF QuoteErrored(quotes[i].resp)
              THEN basics.value[i] = SoftFailRecord(qSymbols[i])
              ELSE basics.value[i] = fetchLastQuote(qSymbols[i], quotes[i].resp).value

---------------------------------------------------------------------------
(* Claims about computeCorrelationInsights (specification SpecInsights) *)

\* C4: for a single-ticker basket (a 1x1 matrix) the insights report the
\* most correlated pair, the least correlated pair and the diversification
\* score as absent.
C4_SingleTickerInsightsAbsent ==
    (insight # Undefined /\ Cardinality(DOMAIN corr) = 1) =>
        /\ insight.most = Null
        /\ insight.least = Null
        /\ insight.diversificationScore = Null

Computed == insight # Undefined

\* the value the pair {a, b} is said to have: corr[a][b] when it is a finite
\* number, otherwise corr[b][a] when it is one, otherwise 0
SymmetricRead(c, a, b) ==
    IF IsNumber(Get(Get(c, a), b)) THEN Get(Get(c, a), b).number
    ELSE IF IsNumber(Get(Get(c, b), a)) THEN Get(Get(c, b), a).number
    ELSE 0

Transpose(c) == [a \in DOMAIN c |-> [b \in DOMAIN c |-> c[b][a]]]

\* C13: every pair {a, b}, a before b in sorted order, has the value
\* corr[a][b] when that entry is a finite number, otherwise corr[b][a] when
\* that entry is a finite number, otherwise 0; for a symmetric matrix the
\* insights equal those of its transpose.
C13_PairsReadSymmetrically ==
    Computed =>
        /\ \A i \in 1..Len(insight.pairs) :
              insight.pairs[i].v =
                  SymmetricRead(corr, insight.pairs[i].a, insight.pairs[i].b)
        /\ (corr = Transpose(corr)) =>
              insight = computeCorrelationInsights(Transpose(corr), optWeights)

PairOf(p) == [a |-> p.a, b |-> p.b, v |-> p.v]

\* C14: for at least two tickers, 'most' is a pair whose value no pair
\* exceeds and 'least' a pair whose value no pair is below, each the first
\* such pair in sorted-ticker enumeration order; every unordered pair is
\* considered exactly once, k(k-1)/2 pairs for k tickers.
C14_ExtremesFirstInOrder ==
    (Computed /\ Cardinality(DOMAIN corr) >= 2) =>
        LET ps == insight.pairs
            k == Cardinality(DOMAIN corr)
        IN  /\ 2 * Len(ps) = k * (k - 1)
            /\ \A a \in DOMAIN corr : \A b \in DOMAIN corr :
                  TickerRank(a) < TickerRank(b) =>
                      Cardinality({i \in 1..Len(ps) : ps[i].a = a /\ ps[i].b = b}) = 1
            /\ \E i \in 1..Len(ps) :
                  /\ insight.most = PairOf(ps[i])
                  /\ \A j \in 1..Len(ps) : ps[j].v <= ps[i].v
                  /\ \A j \in 1..(i - 1) : ps[j].v < ps[i].v
            /\ \E i \in 1..Len(ps) :
                  /\ insight.least = PairOf(ps[i])
                  /\ \A j \in 1..Len(ps) : ps[j].v >= ps[i].v
                  /\ \A j \in 1..(i - 1) : ps[j].v > ps[i].v

\* three tickers, the highest value shared by the second and third pair
C14_Witness ==
    /\ Computed
    /\ Len(insight.pairs) = 3
    /\ insight.pairs[2].v = insight.pairs[3].v
    /\ insight.pairs[1].v < insight.pairs[2].v
    /\ insight.most = PairOf(insight.pairs[2])
    /\ insight.least = PairOf(insight.pairs[1])

\* fractions with positive denominators
FracLT(p, q) == p.num * q.den < q.num * p.den

FracLE(p, q) == p.num * q.den <= q.num * p.den

FracEQ(p, q) == p.num * q.den = q.num * p.den

Zero == [num |-> 0, den |-> 1]

Hundred == [num |-> 100, den |-> 1]

\* the insights of every matrix, without weights
InsightsOf == [c \in CorrMatrices |-> computeCorrelationInsights(c, Undefined)]

\* C15: the diversification score lies in [0, 100]; for at least two
\* tickers it equals (1 - average absolute pair correlation) * 100 clamped
\* to [0, 100]; of two matrices over the same tickers, the one with the
\* lower average absolute correlation never gets the lower score.
C15_ScoreBoundedAndMonotone ==
    Computed =>
        /\ FracLE(Zero, insight.diversificationScore)
        /\ FracLE(insight.diversificationScore, Hundred)
        /\ Cardinality(DOMAIN corr) >= 2 =>
              \* avgAbs is in hundredths: (1 - avgAbs / 100) * 100
              LET raw == [num |-> 100 * insight.avgAbs.den - insight.avgAbs.num,
                          den |-> insight.avgAbs.den]
              IN  FracEQ(insight.diversificationScore,
                         IF FracLT(raw, Zero) THEN Zero
                         ELSE IF FracLT(Hundred, raw) THEN Hundred
                         ELSE raw)
        /\ \A c \in CorrMatrices :
              (DOMAIN c = DOMAIN corr /\ FracLT(InsightsOf[c].avgAbs, insight.avgAbs)) =>
                  FracLE(insight.diversificationScore, InsightsOf[c].diversificationScore)

\* an average absolute correlation above 1: the score is cut off at 0, and
\* a matrix over the same tickers has a lower average and a higher score
C15_Witness ==
    /\ Computed
    /\ Cardinality(DOMAIN corr) = 3
    /\ insight.avgAbs.num > 100 * insight.avgAbs.den
    /\ insight.diversificationScore = Zero
    /\ \E c \in CorrMatrices :
          /\ DOMAIN c = DOMAIN corr
          /\ FracLT(InsightsOf[c].avgAbs, insight.avgAbs)
          /\ FracLT(insight.diversificationScore, InsightsOf[c].diversificationScore)

\* the sum of the values of a function
RECURSIVE SumFn(_)
SumFn(f) ==
    IF DOMAIN f = {} THEN 0
    ELSE LET x == CHOOSE y \in DOMAIN f : TRUE
         IN  f[x] + SumFn([y \in DOMAIN f \ {x} |-> f[y]])

\* the unordered pairs of tickers, lower ticker first
TickerPairs ==
    {ab \in (DOMAIN corr) \X (DOMAIN corr) : TickerRank(ab[1]) < TickerRank(ab[2])}

WeightOf(t) == safeNum(Get(optWeights, t), 0)

\* w_a * w_b and |value| * w_a * w_b of each pair (weights in hundredths)
PairWeights == [ab \in TickerPairs |-> WeightOf(ab[1]) * WeightOf(ab[2])]

WeightedAbs ==
    [ab \in TickerPairs |->
        Abs(safeNum(Get(Get(corr, ab[1]), ab[2]), safeNum(Get(Get(corr, ab[2]), ab[1]), 0)))
            * PairWeights[ab]]

EntriesInRange == \A i \in 1..Len(insight.pairs) : Abs(insight.pairs[i].v) <= 100

WeightsNonNegative == \A t \in DOMAIN corr : WeightOf(t) >= 0

\* C16: the weighted average absolute correlation is the mean of |pair
\* value| weighted by w_a * w_b; it is null exactly when no weights are
\* given or the pair weights do not sum to a positive number; otherwise the
\* divisor is not zero and, for non-negative weights and entries in
\* [-1, 1], the average lies in [0, 1].
C16_WeightedAverage ==
    Computed =>
        /\ insight.weightedAvgAbs = Null <=>
              (optWeights = Undefined \/ SumFn(PairWeights) <= 0)
        /\ insight.weightedAvgAbs # Null =>
              /\ insight.weightedAvgAbs.den = SumFn(PairWeights)
              /\ insight.weightedAvgAbs.num = SumFn(WeightedAbs)
              /\ insight.weightedAvgAbs.den # 0
              /\ (EntriesInRange /\ WeightsNonNegative) =>
                    /\ insight.weightedAvgAbs.num >= 0
                    /\ insight.weightedAvgAbs.num <= 100 * insight.weightedAvgAbs.den

\* all weight on one of three tickers: weights given, no average
C16_Witness ==
    /\ Computed
    /\ Cardinality(DOMAIN corr) = 3
    /\ optWeights # Undefined
    /\ \E t \in DOMAIN corr : WeightOf(t) = 100
    /\ SumFn(PairWeights) = 0
    /\ insight.weightedAvgAbs = Null

\* C17: every diagonal cell of the heatmap is displayed as "1.00", whatever
\* the payload holds at that position; every off-diagonal cell displays
\* the payload's value for that pair, read symmetrically (the cell's own
\* entry when it is a finite number, otherwise the mirrored entry when that
\* is one) with 0 as the default.
C17_CellsDisplayed ==
    Computed =>
        \A r \in DOMAIN corr : \A col \in DOMAIN corr :
            cells[r][col] =
                IF r = col THEN <<"1", ".", "0", "0">>
                ELSE Fmt2(SymmetricRead(corr, r, col))

---------------------------------------------------------------------------
(* Claims about the weights rows (specification SpecWeights) *)

Rendered == weights # Undefined

Below0(w) == w = NegInfinity \/ (IsNumber(w) /\ w.number < 0)

Above1(w) == w = PosInfinity \/ (IsNumber(w) /\ w.number > 100)

\* C18: clamp01 maps every input to a value in [0, 1]: NaN to 0, values
\* below 0 to 0, values above 1 to 1, every value in [0, 1] to itself; so
\* every displayed weight percentage and bar width is between 0% and 100%,
\* whatever weights the response carries.
C18_WeightsDisplayedInRange ==
    Rendered =>
        \A i \in 1..Len(weights.rows) :
            LET w == weights.rows[i].weight
            IN  \E n \in 0..100 :
                  /\ clamp01(w) = Num(n)
                  /\ weights.rows[i].pct = PercentText(Num(n))
                  /\ weights.rows[i].width = PercentText(Num(n))
                  /\ w = NaN => n = 0
                  /\ Below0(w) => n = 0
                  /\ Above1(w) => n = 100
                  /\ (IsNumber(w) /\ w.number >= 0 /\ w.number <= 100) => n = w.number

\* a response with a NaN weight and a weight above 1: shown as 0% and 100%
C18_Witness ==
    /\ Rendered
    /\ \E i \in 1..Len(weights.rows) :
          weights.rows[i].weight = NaN /\ weights.rows[i].pct = <<"0", "%">>
    /\ \E i \in 1..Len(weights.rows) :
          /\ weights.rows[i].weight = Num(250)
          /\ weights.rows[i].pct = <<"1", "0", "0", "%">>
          /\ weights.rows[i].width = <<"1", "0", "0", "%">>

---------------------------------------------------------------------------
(* Claims about the engine (specification SpecEngine) *)

Done == merged = Workers

Samples == 1..Len(population)

\* C7: the reported optimal portfolio is a member of the simulated
\* population whose Sharpe is >= the Sharpe of every simulated portfolio.
C7_OptimalIsMaxSharpe ==
    Done =>
        /\ best # NoBest
        /\ best = population[best.index]
        /\ \A i \in Samples : ~SharpeGT(population[i].sharpe, best.sharpe)

\* the run is reduced and some simulated portfolio has a lower Sharpe
C7_Witness ==
    /\ Done
    /\ \E i \in Samples : SharpeGT(best.sharpe, population[i].sharpe)

\* the lowest-index sample among those with the maximum Sharpe
LowestIndexMax ==
    CHOOSE i \in Samples :
        /\ \A j \in Samples : ~SharpeGT(population[j].sharpe, population[i].sharpe)
        /\ \A j \in Samples : j < i => SharpeGT(population[i].sharpe, population[j].sharpe)

\* C8: for a fixed population, every partition of the samples among the
\* workers and every order of merging selects the same sample: the
\* lowest-index one among those with the maximum Sharpe.
C8_ReductionDeterministic ==
    Done => best.index = LowestIndexMax

\* the maximum is tied between samples of different workers
C8_Witness ==
    /\ Done
    /\ \E i \in Samples :
          /\ i # best.index
          /\ SharpeEQ(population[i].sharpe, best.sharpe)
          /\ assign[i] # assign[best.index]

OnSimplex(ws) ==
    /\ \A j \in 1..Len(ws) : ws[j].num >= 0 /\ ws[j].den > 0
    /\ FracSum(ws).num = FracSum(ws).den

\* C9: every weight vector of the engine (each draw, and the optimal
\* portfolio) has non-negative weights that sum to 1; with one ticker its
\* weight is 1 in every draw.
C9_WeightsOnSimplex ==
    /\ \A i \in Samples :
          /\ Len(population[i].weights) = market.k
          /\ OnSimplex(population[i].weights)
          /\ market.k = 1 => population[i].weights[1].num = population[i].weights[1].den
    /\ best # NoBest => OnSimplex(best.weights)

\* a reduced two-ticker run whose optimum has unequal weights
C9_Witness ==
    /\ Done
    /\ market.k = 2
    /\ best.weights[1].num # best.weights[2].num

====
